---- MODULE Spec2Model ----
(***************************************************************************)
(* Workers API client of cloudflare-go (workers.go): the dual-mode request *)
(* router, the multipart body builder, the binding serialisation and the   *)
(* route normalisation, as a state machine.  One behaviour is one client   *)
(* (configured at construction) on which a caller invokes one public       *)
(* operation; the transport (makeRequest / makeRequestWithHeaders) is an   *)
(* external collaborator whose outcome is chosen by the environment.       *)
(***************************************************************************)
EXTENDS Integers, Sequences, FiniteSets, TLC

\* ------------------------------------------------------------------ bounds
MaxBindings == 2   \* most entries in a WorkerScriptParams.Bindings map
MaxRoutes == 2     \* most routes in a server's route listing

\* ------------------------------------------------------------ input domains
OrgIDs == {"", "foo"}
ZoneIDs == {"", "z1"}
ScriptNames == {"", "bar"}
RouteIDs == {"r1", "r2"}
ScriptTexts == {"", "addEventListener()"}
RouteScripts == {"", "test_script"}
BindingNames == {"script", "script_", "script__", "b1", "b2"}
Boundaries == {"bnd1"}

\* ------------------------------------------------------------------ errors
\* An error value: its message and, when it wraps another, the cause's message.
NoErr == [msg |-> "", cause |-> ""]

New(m) == [msg |-> m, cause |-> ""]

Wrap(e, m) == [msg |-> m, cause |-> e.msg]

errMakeRequestError == "request failed"

errUnmarshalError == "unmarshal failed"

errOrgRequired == "organization ID required for enterprise only request"

TransportErr == New("transport")

JSONSyntaxErr == New("invalid character")

SerializeErr == New("serialize")

WriterErr == New("body writer")

\* ------------------------------------------------------------------ values
\* WorkerRoute
NoRoute == [ID |-> "", Pattern |-> "", Enabled |-> FALSE, Script |-> ""]

RouteArgs == [ID : {""}, Pattern : {"app1.example.com/*"}, Enabled : BOOLEAN, Script : RouteScripts]

ServerRoutes == [ID : {"e7a5"}, Pattern : {"app1.example.com/*"}, Enabled : BOOLEAN, Script : RouteScripts]

SeqsUpTo(S, n) == UNION {[1..k -> S] : k \in 0..n}

\* The zero value of the response structs (WorkerScriptResponse,
\* WorkerListResponse, WorkerRouteResponse, WorkerRoutesResponse).
ZeroResponse == [Success |-> FALSE, Script |-> "", Route |-> NoRoute, Routes |-> <<>>]

\* A response body as the server wrote it: its bytes, and what the bytes hold.
BoolJSON(b) == IF b THEN "true" ELSE "false"

RouteJSON(r) ==
    "{\"id\":\"" \o r.ID \o "\",\"pattern\":\"" \o r.Pattern \o "\",\"enabled\":" \o BoolJSON(r.Enabled)
      \o (IF r.Script = "" THEN "" ELSE ",\"script\":\"" \o r.Script \o "\"") \o "}"

RECURSIVE RoutesJSON(_)
RoutesJSON(rs) ==
    IF rs = <<>> THEN ""
    ELSE RouteJSON(Head(rs)) \o (IF Len(rs) > 1 THEN "," ELSE "") \o RoutesJSON(Tail(rs))

Envelope(success, result) ==
    "{\"result\":" \o result \o ",\"success\":" \o BoolJSON(success) \o ",\"errors\":[],\"messages\":[]}"

GarbageBody == [bytes |-> "not json", valid |-> FALSE, env |-> ZeroResponse]

ScriptBodies ==
    {GarbageBody}
    \cup {[bytes |-> Envelope(s, "null"), valid |-> TRUE, env |-> [ZeroResponse EXCEPT !.Success = s]]
            : s \in BOOLEAN}

RouteBodies ==
    {GarbageBody}
    \cup {[bytes |-> Envelope(TRUE, RouteJSON(r)), valid |-> TRUE,
           env |-> [ZeroResponse EXCEPT !.Success = TRUE, !.Route = r]] : r \in ServerRoutes}

RoutesBodies ==
    {GarbageBody}
    \cup {[bytes |-> Envelope(TRUE, "[" \o RoutesJSON(rs) \o "]"), valid |-> TRUE,
           env |-> [ZeroResponse EXCEPT !.Success = TRUE, !.Routes = rs]]
            : rs \in SeqsUpTo(ServerRoutes, MaxRoutes)}

\* What the transport hands back for one request: an error or the body.
TransportOutcomes(bodies) ==
    {[err |-> TransportErr, res |-> GarbageBody]} \cup {[err |-> NoErr, res |-> b] : b \in bodies}

\* json.Unmarshal(res, &r)
Unmarshal(res) ==
    IF res.valid THEN [err |-> NoErr, r |-> res.env] ELSE [err |-> JSONSyntaxErr, r |-> ZeroResponse]

\* ---------------------------------------------------------------- requests
NoBody == [multipart |-> FALSE, raw |-> "", boundary |-> "", parts |-> <<>>]

RawBody(data) == [multipart |-> FALSE, raw |-> data, boundary |-> "", parts |-> <<>>]

\* makeRequest(method, uri, params): no header is set by this layer.
makeRequest(method, uri, params) ==
    [method |-> method, uri |-> uri, params |-> params, body |-> NoBody, ContentType |-> ""]

\* makeRequestWithHeaders(method, uri, body, headers)
makeRequestWithHeaders(method, uri, body, contentType) ==
    [method |-> method, uri |-> uri, params |-> NoRoute, body |-> body, ContentType |-> contentType]

\* What one call did: the requests it issued and what it returned.
Result(sent, err, r) == [sent |-> sent, err |-> err, r |-> r]

\* Mutant: the two stage tags are exchanged.
DecodeTail_TagsSwapped(req, t) ==
    IF t.err # NoErr THEN Result(<<req>>, Wrap(t.err, errUnmarshalError), ZeroResponse)
    ELSE LET u == Unmarshal(t.res)
         IN IF u.err # NoErr THEN Result(<<req>>, Wrap(u.err, errMakeRequestError), ZeroResponse)
            ELSE Result(<<req>>, NoErr, u.r)

\* Mutant: a failed request is tried once more before the error is returned.
DecodeTail_Retry(req, t) ==
    IF t.err # NoErr THEN Result(<<req, req>>, Wrap(t.err, errMakeRequestError), ZeroResponse)
    ELSE LET u == Unmarshal(t.res)
         IN IF u.err # NoErr THEN Result(<<req>>, Wrap(u.err, errUnmarshalError), ZeroResponse)
            ELSE Result(<<req>>, NoErr, u.r)

\* The tail shared by the JSON-returning operations: wrap a transport error,
\* else decode the envelope and wrap a decode error.
DecodeTail(req, t) ==
    IF t.err # NoErr THEN Result(<<req>>, Wrap(t.err, errMakeRequestError), ZeroResponse)
    ELSE LET u == Unmarshal(t.res)
         IN IF u.err # NoErr THEN Result(<<req>>, Wrap(u.err, errUnmarshalError), ZeroResponse)
            ELSE Result(<<req>>, NoErr, u.r)

\* Mutant: the download decodes the body as an envelope, like the other operations.
RawTail_Decoded(req, t) == DecodeTail(req, t)

\* The tail of the download operations: the body is the script itself.
RawTail(req, t) ==
    IF t.err # NoErr THEN Result(<<req>>, Wrap(t.err, errMakeRequestError), ZeroResponse)
    ELSE Result(<<req>>, NoErr, [ZeroResponse EXCEPT !.Script = t.res.bytes, !.Success = TRUE])

\* ------------------------------------------------------- script operations
deleteWorkerWithName(org, scriptName, t) ==
    IF org = "" THEN Result(<<>>, New(errOrgRequired), ZeroResponse)
    ELSE DecodeTail(makeRequest("DELETE", "/accounts/" \o org \o "/workers/scripts/" \o scriptName, NoRoute), t)

\* Mutant: the zone identifier, when given, selects the zone endpoint.
DeleteWorkerOp_ByZone(org, p, t) ==
    IF p.ZoneID = "" THEN deleteWorkerWithName(org, p.ScriptName, t)
    ELSE DecodeTail(makeRequest("DELETE", "/zones/" \o p.ZoneID \o "/workers/script", NoRoute), t)

DeleteWorkerOp(org, p, t) ==
    IF p.ScriptName # "" THEN deleteWorkerWithName(org, p.ScriptName, t)
    ELSE DecodeTail(makeRequest("DELETE", "/zones/" \o p.ZoneID \o "/workers/script", NoRoute), t)

downloadWorkerWithName(org, scriptName, t) ==
    IF org = "" THEN Result(<<>>, New(errOrgRequired), ZeroResponse)
    ELSE RawTail(makeRequest("GET", "/accounts/" \o org \o "/workers/scripts/" \o scriptName, NoRoute), t)

DownloadWorkerOp(org, p, t) ==
    IF p.ScriptName # "" THEN downloadWorkerWithName(org, p.ScriptName, t)
    ELSE RawTail(makeRequest("GET", "/zones/" \o p.ZoneID \o "/workers/script", NoRoute), t)

ListWorkerScriptsOp(org, t) ==
    IF org = "" THEN Result(<<>>, New(errOrgRequired), ZeroResponse)
    ELSE DecodeTail(makeRequest("GET", "/accounts/" \o org \o "/workers/scripts", NoRoute), t)

singleScriptUpload(zoneId, contentType, body, t) ==
    DecodeTail(makeRequestWithHeaders("PUT", "/zones/" \o zoneId \o "/workers/script", body, contentType), t)

\* Mutant: the identifier check is missing.
multiScriptUpload_NoCheck(org, scriptName, contentType, body, t) ==
    DecodeTail(makeRequestWithHeaders("PUT", "/accounts/" \o org \o "/workers/scripts/" \o scriptName,
                                      body, contentType), t)

multiScriptUpload(org, scriptName, contentType, body, t) ==
    IF org = "" THEN Result(<<>>, New(errOrgRequired), ZeroResponse)
    ELSE DecodeTail(makeRequestWithHeaders("PUT", "/accounts/" \o org \o "/workers/scripts/" \o scriptName,
                                           body, contentType), t)

\* Mutant: the script is sent under the content type of a form upload.
UploadWorkerOp_FormType(org, p, data, t) ==
    IF p.ScriptName # "" THEN multiScriptUpload(org, p.ScriptName, "multipart/form-data", RawBody(data), t)
    ELSE singleScriptUpload(p.ZoneID, "multipart/form-data", RawBody(data), t)

UploadWorkerOp(org, p, data, t) ==
    IF p.ScriptName # "" THEN multiScriptUpload(org, p.ScriptName, "application/javascript", RawBody(data), t)
    ELSE singleScriptUpload(p.ZoneID, "application/javascript", RawBody(data), t)

\* ---------------------------------------------------------------- bindings
\* A WorkerBinding value.  WorkerInheritBinding is the one implementor in the
\* package; "custom" stands for any other implementor of the interface, known
\* only by what serialize may return: an error, or a fragment with or without
\* a body-part writer, which in turn succeeds or fails.
InheritBinding(oldName) == [type |-> "inherit", OldName |-> oldName, serializeErr |-> FALSE, writer |-> "nil"]

CustomBinding(serializeErr, writer) ==
    [type |-> "custom", OldName |-> "", serializeErr |-> serializeErr, writer |-> writer]

BindingValues ==
    {InheritBinding(""), InheritBinding("old_binding_name"),
     CustomBinding(TRUE, "nil"), CustomBinding(FALSE, "ok"), CustomBinding(FALSE, "fail")}

BindingMaps ==
    UNION {[S -> BindingValues] : S \in {T \in SUBSET BindingNames : Cardinality(T) <= MaxBindings}}

\* The orders in which a range over a map may visit its keys.
Orders(S) == {o \in [1..Cardinality(S) -> S] : \A i, j \in 1..Cardinality(S) : i # j => o[i] # o[j]}

NilWriter == [present |-> FALSE, fails |-> FALSE, owner |-> ""]

NoFragment == [name |-> "", type |-> ""]

\* Mutant: old_name lacks omitempty and is always written.
InheritSerialize_NoOmitEmpty(b, name) ==
    [meta |-> [name |-> name, type |-> "inherit", old_name |-> b.OldName],
     writer |-> NilWriter, err |-> NoErr]

\* WorkerInheritBinding.serialize: old_name is omitted when empty.
InheritSerialize(b, name) ==
    [meta |-> IF b.OldName = "" THEN [name |-> name, type |-> "inherit"]
              ELSE [name |-> name, type |-> "inherit", old_name |-> b.OldName],
     writer |-> NilWriter, err |-> NoErr]

\* serialize of any other implementor of WorkerBinding.
CustomSerialize(b, name) ==
    IF b.serializeErr THEN [meta |-> NoFragment, writer |-> NilWriter, err |-> SerializeErr]
    ELSE [meta |-> [name |-> name, type |-> "custom"],
          writer |-> IF b.writer = "nil" THEN NilWriter
                     ELSE [present |-> TRUE, fails |-> (b.writer = "fail"), owner |-> name],
          err |-> NoErr]

Serialize(b, name) == IF b.type = "inherit" THEN InheritSerialize(b, name) ELSE CustomSerialize(b, name)

\* ---------------------------------------------------- multipart body builder
hasKey(m, key) == key \in DOMAIN m

\* Mutant: an `if` in place of the `for`: one marker is appended at most.
CollisionLoop_Once(m, scriptBodyPart) ==
    IF hasKey(m, scriptBodyPart) THEN scriptBodyPart \o "_" ELSE scriptBodyPart

\* for hasKey(params.Bindings, scriptBodyPart) { scriptBodyPart += "_" }
RECURSIVE CollisionLoop(_, _)
CollisionLoop(m, scriptBodyPart) ==
    IF hasKey(m, scriptBodyPart) THEN CollisionLoop(m, scriptBodyPart \o "_") ELSE scriptBodyPart

NoMeta == [body_part |-> "", bindings |-> <<>>]

\* A part the builder itself creates (CreatePart + Write).
BuilderPart(name, ctype, json, text) ==
    [origin |-> "builder", name |-> name, ctype |-> ctype, json |-> json, text |-> text, owner |-> ""]

\* Whatever a binding's body-part writer appended to the multipart writer.
BindingPart(owner) ==
    [origin |-> "binding", name |-> "", ctype |-> "", json |-> NoMeta, text |-> "", owner |-> owner]

Failed(err) == [contentType |-> "", body |-> NoBody, err |-> err]

Min(S) == CHOOSE x \in S : \A y \in S : x <= y

\* Mutant: the writers are run in an order other than the one the fragments
\* were collected in (here the reverse).
RECURSIVE WriterParts_Reversed(_)
WriterParts_Reversed(ws) ==
    IF ws = <<>> THEN <<>>
    ELSE WriterParts_Reversed(Tail(ws)) \o (IF Head(ws).present THEN <<BindingPart(Head(ws).owner)>> ELSE <<>>)

RECURSIVE WriterParts(_)
WriterParts(ws) ==
    IF ws = <<>> THEN <<>>
    ELSE (IF Head(ws).present THEN <<BindingPart(Head(ws).owner)>> ELSE <<>>) \o WriterParts(Tail(ws))

\* Mutant: a fragment is appended only next to a non-nil body writer.
formatMultipartBody_FragmentsOfWriters(params, order, boundary) ==
    LET scriptBodyPart == CollisionLoop(params.Bindings, "script")
        n == Len(order)
        ser == [i \in 1..n |-> Serialize(params.Bindings[order[i]], order[i])]
        serFailed == {i \in 1..n : ser[i].err # NoErr}
        withWriter == SelectSeq([i \in 1..n |-> ser[i]], LAMBDA x : x.writer.present)
        meta == [body_part |-> scriptBodyPart, bindings |-> [i \in 1..Len(withWriter) |-> withWriter[i].meta]]
        bodyWriters == [i \in 1..n |-> ser[i].writer]
        wFailed == {i \in 1..n : bodyWriters[i].present /\ bodyWriters[i].fails}
        parts == << BuilderPart("metadata", "application/json", meta, ""),
                    BuilderPart(scriptBodyPart, "application/javascript", NoMeta, params.Script) >>
                 \o WriterParts(bodyWriters)
    IN  IF serFailed # {} THEN Failed(ser[Min(serFailed)].err)
        ELSE IF wFailed # {} THEN Failed(WriterErr)
        ELSE [contentType |-> "multipart/form-data; boundary=" \o boundary,
              body |-> [multipart |-> TRUE, raw |-> "", boundary |-> boundary, parts |-> parts],
              err |-> NoErr]

\* formatMultipartBody(params), with the order in which the range over
\* params.Bindings visits the keys and the boundary multipart.NewWriter drew.
formatMultipartBody(params, order, boundary) ==
    LET scriptBodyPart == CollisionLoop(params.Bindings, "script")
        n == Len(order)
        ser == [i \in 1..n |-> Serialize(params.Bindings[order[i]], order[i])]
        serFailed == {i \in 1..n : ser[i].err # NoErr}
        meta == [body_part |-> scriptBodyPart, bindings |-> [i \in 1..n |-> ser[i].meta]]
        bodyWriters == [i \in 1..n |-> ser[i].writer]
        wFailed == {i \in 1..n : bodyWriters[i].present /\ bodyWriters[i].fails}
        parts == << BuilderPart("metadata", "application/json", meta, ""),
                    BuilderPart(scriptBodyPart, "application/javascript", NoMeta, params.Script) >>
                 \o WriterParts(bodyWriters)
    IN  IF serFailed # {} THEN Failed(ser[Min(serFailed)].err)
        ELSE IF wFailed # {} THEN Failed(WriterErr)
        ELSE [contentType |-> "multipart/form-data; boundary=" \o boundary,
              body |-> [multipart |-> TRUE, raw |-> "", boundary |-> boundary, parts |-> parts],
              err |-> NoErr]

\* Mutant: the error of formatMultipartBody is dropped and the upload goes on.
UploadWorkerWithBindingsOp_IgnoresErr(org, p, data, order, boundary, t) ==
    LET f == formatMultipartBody(data, order, boundary)
    IN  IF p.ScriptName # "" THEN multiScriptUpload(org, p.ScriptName, f.contentType, f.body, t)
        ELSE singleScriptUpload(p.ZoneID, f.contentType, f.body, t)

UploadWorkerWithBindingsOp(org, p, data, order, boundary, t) ==
    LET f == formatMultipartBody(data, order, boundary)
    IN  IF f.err # NoErr THEN Result(<<>>, f.err, ZeroResponse)
        ELSE IF p.ScriptName # "" THEN multiScriptUpload(org, p.ScriptName, f.contentType, f.body, t)
        ELSE singleScriptUpload(p.ZoneID, f.contentType, f.body, t)

\* formatMultipartBody writes into a bytes.Buffer, on which creating a part
\* and writing to it cannot fail, and marshals fragments that are valid JSON:
\* formatMultipartBody above is the code on that sink.  The steps between the
\* two loops over the bindings are checked for errors all the same; what the
\* code does when one of them fails is formatMultipartBodyOn, `fault` naming
\* the step that fails.
Faults == {"none", "createMetadataPart", "marshalMetadata", "writeMetadata", "createScriptPart", "writeScript"}

StepErr(step) == New(step)

\* Calling Write on the nil part writer that a failed CreatePart returns.
NilWriterPanic == New("panic: invalid memory address or nil pointer dereference")

formatMultipartBodyOn(params, order, boundary, fault) ==
    LET f == formatMultipartBody(params, order, boundary)
        serializeOK == \A i \in 1..Len(order) : Serialize(params.Bindings[order[i]], order[i]).err = NoErr
    IN  IF ~serializeOK THEN f
        ELSE IF fault \in {"createMetadataPart", "marshalMetadata", "writeMetadata"} THEN Failed(StepErr(fault))
        \* pw, err = mpw.CreatePart(hdr); _, err = pw.Write(...): the first err is overwritten
        ELSE IF fault = "createScriptPart" THEN Failed(NilWriterPanic)
        ELSE IF fault = "writeScript" THEN Failed(StepErr(fault))
        ELSE f

UploadWorkerWithBindingsOn(org, p, data, order, boundary, fault, t) ==
    LET f == formatMultipartBodyOn(data, order, boundary, fault)
    IN  IF f.err # NoErr THEN Result(<<>>, f.err, ZeroResponse)
        ELSE IF p.ScriptName # "" THEN multiScriptUpload(org, p.ScriptName, f.contentType, f.body, t)
        ELSE singleScriptUpload(p.ZoneID, f.contentType, f.body, t)

\* -------------------------------------------------------- route operations
\* Mutant: the mode is taken from the client's identifier, as in the listing.
CreateWorkerRouteOp_ByOrg(org, zoneID, route, t) ==
    LET pathComponent == IF org # "" THEN "routes" ELSE "filters"
    IN DecodeTail(makeRequest("POST", "/zones/" \o zoneID \o "/workers/" \o pathComponent, route), t)

CreateWorkerRouteOp(org, zoneID, route, t) ==
    IF route.Script # "" /\ org = "" THEN Result(<<>>, New(errOrgRequired), ZeroResponse)
    ELSE LET pathComponent == IF route.Script # "" THEN "routes" ELSE "filters"
         IN DecodeTail(makeRequest("POST", "/zones/" \o zoneID \o "/workers/" \o pathComponent, route), t)

\* Mutant: the delete follows the client's mode like the listing does.
DeleteWorkerRouteOp_ByMode(org, zoneID, routeID, t) ==
    LET pathComponent == IF org # "" THEN "routes" ELSE "filters"
    IN DecodeTail(makeRequest("DELETE", "/zones/" \o zoneID \o "/workers/" \o pathComponent \o "/" \o routeID,
                              NoRoute), t)

DeleteWorkerRouteOp(org, zoneID, routeID, t) ==
    DecodeTail(makeRequest("DELETE", "/zones/" \o zoneID \o "/workers/filters/" \o routeID, NoRoute), t)

\* Mutant: the pass writes to a copy of each route (for _, route := range),
\* so the response keeps the server's values.
BackfillEnabled_OnCopy(routes) == routes

\* The pass over r.Routes at the end of ListWorkerRoutes.
BackfillEnabled(routes) ==
    [i \in 1..Len(routes) |->
        IF routes[i].Script # "" THEN [routes[i] EXCEPT !.Enabled = TRUE] ELSE routes[i]]

\* Mutant: the listing always uses the single-script endpoint.
ListWorkerRoutesOp_AlwaysFilters(org, zoneID, t) ==
    LET d == DecodeTail(makeRequest("GET", "/zones/" \o zoneID \o "/workers/filters", NoRoute), t)
    IN  IF d.err # NoErr THEN d
        ELSE [d EXCEPT !.r.Routes = BackfillEnabled(d.r.Routes)]

ListWorkerRoutesOp(org, zoneID, t) ==
    LET pathComponent == IF org # "" THEN "routes" ELSE "filters"
        d == DecodeTail(makeRequest("GET", "/zones/" \o zoneID \o "/workers/" \o pathComponent, NoRoute), t)
    IN  IF d.err # NoErr THEN d
        ELSE [d EXCEPT !.r.Routes = BackfillEnabled(d.r.Routes)]

UpdateWorkerRouteOp(org, zoneID, routeID, route, t) ==
    IF route.Script # "" /\ org = "" THEN Result(<<>>, New(errOrgRequired), ZeroResponse)
    ELSE LET pathComponent == IF route.Script # "" THEN "routes" ELSE "filters"
         IN DecodeTail(makeRequest("PUT", "/zones/" \o zoneID \o "/workers/" \o pathComponent \o "/" \o routeID,
                                   route), t)

\* ------------------------------------------------------------ state machine
VARIABLES
    OrganizationID,  \* api.OrganizationID, set when the client is constructed
    pc,              \* the caller: "idle" before its call, "returned" after it
    op,              \* the public operation the caller invoked
    args,            \* the arguments of the call
    transport,       \* what the transport answered to the call's request
    sent,            \* the requests the call handed to the transport, in order
    ret              \* what the call returned: its error and its response value

vars == <<OrganizationID, pc, op, args, transport, sent, ret>>

EmptyBindings == [n \in {} |-> InheritBinding("")]

NoArgs ==
    [ZoneID |-> "", ScriptName |-> "", routeID |-> "", route |-> NoRoute,
     Script |-> "", Bindings |-> EmptyBindings, order |-> <<>>, boundary |-> "", fault |-> "none"]

NoTransport == [err |-> NoErr, res |-> GarbageBody]

Init ==
    /\ OrganizationID \in OrgIDs
    /\ pc = "idle"
    /\ op = "none"
    /\ args = NoArgs
    /\ transport = NoTransport
    /\ sent = <<>>
    /\ ret = [err |-> NoErr, r |-> ZeroResponse]

\* Mutant: a call that fails the identifier check stores a default identifier
\* in the client for the calls to come.
Call_StoresDefaultOrg(name, a, t, res) ==
    /\ pc' = "returned"
    /\ op' = name
    /\ args' = a
    /\ transport' = IF res.sent = <<>> THEN NoTransport ELSE t
    /\ sent' = res.sent
    /\ ret' = [err |-> res.err, r |-> res.r]
    /\ OrganizationID' = IF res.err.msg = errOrgRequired THEN "default" ELSE OrganizationID

\* One synchronous call: the caller invokes `name` with `a`, the handler runs
\* to its return, the transport answering `t` if it is asked.
Call(name, a, t, res) ==
    /\ pc' = "returned"
    /\ op' = name
    /\ args' = a
    /\ transport' = IF res.sent = <<>> THEN NoTransport ELSE t
    /\ sent' = res.sent
    /\ ret' = [err |-> res.err, r |-> res.r]
    /\ UNCHANGED OrganizationID

Params(a) == [ZoneID |-> a.ZoneID, ScriptName |-> a.ScriptName]

ScriptParams(a) == [Script |-> a.Script, Bindings |-> a.Bindings]

DeleteWorker ==
    /\ pc = "idle"
    /\ \E z \in ZoneIDs, s \in ScriptNames, t \in TransportOutcomes(ScriptBodies) :
        LET a == [NoArgs EXCEPT !.ZoneID = z, !.ScriptName = s]
        IN Call("DeleteWorker", a, t, DeleteWorkerOp(OrganizationID, Params(a), t))

DownloadWorker ==
    /\ pc = "idle"
    /\ \E z \in ZoneIDs, s \in ScriptNames, t \in TransportOutcomes(ScriptBodies) :
        LET a == [NoArgs EXCEPT !.ZoneID = z, !.ScriptName = s]
        IN Call("DownloadWorker", a, t, DownloadWorkerOp(OrganizationID, Params(a), t))

ListWorkerScripts ==
    /\ pc = "idle"
    /\ \E t \in TransportOutcomes(ScriptBodies) :
        Call("ListWorkerScripts", NoArgs, t, ListWorkerScriptsOp(OrganizationID, t))

UploadWorker ==
    /\ pc = "idle"
    /\ \E z \in ZoneIDs, s \in ScriptNames, data \in ScriptTexts, t \in TransportOutcomes(ScriptBodies) :
        LET a == [NoArgs EXCEPT !.ZoneID = z, !.ScriptName = s, !.Script = data]
        IN Call("UploadWorker", a, t, UploadWorkerOp(OrganizationID, Params(a), data, t))

UploadWorkerWithBindings ==
    /\ pc = "idle"
    /\ \E z \in ZoneIDs, s \in ScriptNames, data \in ScriptTexts, m \in BindingMaps,
       bnd \in Boundaries, t \in TransportOutcomes(ScriptBodies) :
        \E o \in Orders(DOMAIN m) :
            LET a == [NoArgs EXCEPT !.ZoneID = z, !.ScriptName = s, !.Script = data,
                                    !.Bindings = m, !.order = o, !.boundary = bnd]
            IN Call("UploadWorkerWithBindings", a, t,
                    UploadWorkerWithBindingsOp(OrganizationID, Params(a), ScriptParams(a), o, bnd, t))

CreateWorkerRoute ==
    /\ pc = "idle"
    /\ \E z \in ZoneIDs, route \in RouteArgs, t \in TransportOutcomes(RouteBodies) :
        LET a == [NoArgs EXCEPT !.ZoneID = z, !.route = route]
        IN Call("CreateWorkerRoute", a, t, CreateWorkerRouteOp(OrganizationID, z, route, t))

DeleteWorkerRoute ==
    /\ pc = "idle"
    /\ \E z \in ZoneIDs, id \in RouteIDs, t \in TransportOutcomes(RouteBodies) :
        LET a == [NoArgs EXCEPT !.ZoneID = z, !.routeID = id]
        IN Call("DeleteWorkerRoute", a, t, DeleteWorkerRouteOp(OrganizationID, z, id, t))

ListWorkerRoutes ==
    /\ pc = "idle"
    /\ \E z \in ZoneIDs, t \in TransportOutcomes(RoutesBodies) :
        LET a == [NoArgs EXCEPT !.ZoneID = z]
        IN Call("ListWorkerRoutes", a, t, ListWorkerRoutesOp(OrganizationID, z, t))

UpdateWorkerRoute ==
    /\ pc = "idle"
    /\ \E z \in ZoneIDs, id \in RouteIDs, route \in RouteArgs, t \in TransportOutcomes(RouteBodies) :
        LET a == [NoArgs EXCEPT !.ZoneID = z, !.routeID = id, !.route = route]
        IN Call("UpdateWorkerRoute", a, t, UpdateWorkerRouteOp(OrganizationID, z, id, route, t))

Next ==
    \/ DeleteWorker
    \/ DownloadWorker
    \/ ListWorkerScripts
    \/ UploadWorker
    \/ UploadWorkerWithBindings
    \/ CreateWorkerRoute
    \/ DeleteWorkerRoute
    \/ ListWorkerRoutes
    \/ UpdateWorkerRoute

Spec == Init /\ [][Next]_vars

\* UploadWorkerWithBindings with a multipart sink on which a step may fail.
UploadWorkerWithBindingsOnSink ==
    /\ pc = "idle"
    /\ \E z \in ZoneIDs, s \in ScriptNames, data \in ScriptTexts, m \in BindingMaps,
          bnd \in Boundaries, fault \in Faults, t \in TransportOutcomes(ScriptBodies) :
        \E o \in Orders(DOMAIN m) :
            LET a == [NoArgs EXCEPT !.ZoneID = z, !.ScriptName = s, !.Script = data,
                                    !.Bindings = m, !.order = o, !.boundary = bnd, !.fault = fault]
            IN Call("UploadWorkerWithBindings", a, t,
                    UploadWorkerWithBindingsOn(OrganizationID, Params(a), ScriptParams(a), o, bnd, fault, t))

NextOnSink == UploadWorkerWithBindingsOnSink

SpecOnSink == Init /\ [][NextOnSink]_vars

\* ------------------------------------------------------------------ claims
Returned(o) == pc = "returned" /\ op = o

ScriptOps == {"DeleteWorker", "DownloadWorker", "UploadWorker", "UploadWorkerWithBindings"}

RouteWriteOps == {"CreateWorkerRoute", "UpdateWorkerRoute"}

\* The call is one of the multi-script-only operations.
MultiScriptCall ==
    /\ pc = "returned"
    /\ \/ op \in ScriptOps /\ args.ScriptName # ""
       \/ op = "ListWorkerScripts"
       \/ op \in RouteWriteOps /\ args.route.Script # ""

\* Some binding of the call makes the body assembly fail.
BodyAssemblyFails == \E n \in DOMAIN args.Bindings : args.Bindings[n].serializeErr \/ args.Bindings[n].writer = "fail"

ZoneScriptURI == "/zones/" \o args.ZoneID \o "/workers/script"

AccountScriptURI == "/accounts/" \o OrganizationID \o "/workers/scripts/" \o args.ScriptName

\* The call gets as far as its transport request: no local error stops it.
ReachesTransport ==
    /\ args.ScriptName # "" => OrganizationID # ""
    /\ op = "UploadWorkerWithBindings" => ~BodyAssemblyFails

\* C2: DeleteWorker, DownloadWorker, UploadWorker and UploadWorkerWithBindings
\* pick the endpoint family from ScriptName alone: with a non-empty ScriptName
\* the request goes to /accounts/{account}/workers/scripts/{ScriptName}
\* whatever ZoneID holds, with an empty one to /zones/{ZoneID}/workers/script
\* whether or not an account identifier is configured.
C2_EndpointByScriptName ==
    (pc = "returned" /\ op \in ScriptOps) =>
        /\ \A i \in DOMAIN sent :
              sent[i].uri = IF args.ScriptName # "" THEN AccountScriptURI ELSE ZoneScriptURI
        /\ ReachesTransport => Len(sent) = 1

C2_Witness ==
    /\ Returned("DeleteWorker") /\ args.ScriptName # "" /\ args.ZoneID # ""
    /\ Len(sent) = 1 /\ sent[1].uri = "/accounts/foo/workers/scripts/bar"

RouteURI(pathComponent) ==
    "/zones/" \o args.ZoneID \o "/workers/" \o pathComponent
      \o (IF op = "UpdateWorkerRoute" THEN "/" \o args.routeID ELSE "")

RouteMethod == IF op = "UpdateWorkerRoute" THEN "PUT" ELSE "POST"

\* C3: CreateWorkerRoute and UpdateWorkerRoute choose the path segment by the
\* route's Script field only: an empty Script gives POST .../workers/filters
\* or PUT .../workers/filters/{routeID} even when an account identifier is
\* configured, and a non-empty Script with an account identifier configured
\* gives the same paths with "routes".
C3_RouteSegmentByScript ==
    (pc = "returned" /\ op \in RouteWriteOps) =>
        /\ args.route.Script = "" =>
              sent = <<makeRequest(RouteMethod, RouteURI("filters"), args.route)>>
        /\ (args.route.Script # "" /\ OrganizationID # "") =>
              sent = <<makeRequest(RouteMethod, RouteURI("routes"), args.route)>>

C3_Witness ==
    /\ Returned("CreateWorkerRoute") /\ args.route.Script = "" /\ OrganizationID # ""
    /\ Len(sent) = 1 /\ sent[1].method = "POST" /\ sent[1].uri = "/zones/z1/workers/filters"

\* The routes of the server's answer to the call, as decoded.
ServerSupplied == transport.res.env.Routes

ListSucceeded == Returned("ListWorkerRoutes") /\ ret.err = NoErr

\* Nothing but Enabled differs between the returned routes and the server's.
SameRoutesButEnabled ==
    /\ Len(ret.r.Routes) = Len(ServerSupplied)
    /\ \A i \in DOMAIN ServerSupplied : [ret.r.Routes[i] EXCEPT !.Enabled = ServerSupplied[i].Enabled] = ServerSupplied[i]

\* C4: after ListWorkerRoutes succeeds with an account identifier configured,
\* every returned route with a non-empty Script has Enabled = TRUE whatever the
\* server supplied, and every returned route with an empty Script keeps the
\* server's Enabled.
C4_BackfillInMultiScriptMode ==
    (ListSucceeded /\ OrganizationID # "") =>
        /\ SameRoutesButEnabled
        /\ \A i \in DOMAIN ret.r.Routes :
              IF ret.r.Routes[i].Script # "" THEN ret.r.Routes[i].Enabled = TRUE
              ELSE ret.r.Routes[i].Enabled = ServerSupplied[i].Enabled

C4_Witness ==
    /\ ListSucceeded /\ OrganizationID # "" /\ Len(ServerSupplied) = 2
    /\ ServerSupplied[1].Script # "" /\ ~ServerSupplied[1].Enabled /\ ret.r.Routes[1].Enabled
    /\ ServerSupplied[2].Script = "" /\ ~ServerSupplied[2].Enabled /\ ~ret.r.Routes[2].Enabled

\* C5: when ListWorkerRoutes runs with no account identifier configured, every
\* route of the server's response, one with a non-empty Script included, is
\* returned with the Enabled value the server supplied.
C5_SingleScriptPassThrough ==
    (ListSucceeded /\ OrganizationID = "") =>
        /\ Len(ret.r.Routes) = Len(ServerSupplied)
        /\ \A i \in DOMAIN ret.r.Routes : ret.r.Routes[i].Enabled = ServerSupplied[i].Enabled

\* C6: ListWorkerRoutes chooses its endpoint only from whether an account
\* identifier is configured: GET /zones/{zone}/workers/routes when it is,
\* GET /zones/{zone}/workers/filters when it is not; it never fails with the
\* "organization ID required" error.
C6_ListEndpointByOrg ==
    Returned("ListWorkerRoutes") =>
        /\ sent = <<makeRequest("GET", "/zones/" \o args.ZoneID \o "/workers/"
                                        \o (IF OrganizationID # "" THEN "routes" ELSE "filters"), NoRoute)>>
        /\ ret.err.msg # errOrgRequired

C6_Witness ==
    /\ Returned("ListWorkerRoutes") /\ OrganizationID # ""
    /\ Len(sent) = 1 /\ sent[1].method = "GET" /\ sent[1].uri = "/zones/z1/workers/routes"
    /\ ret.err = NoErr

\* C7: DeleteWorkerRoute is mode-agnostic: for every zoneID and routeID, and
\* whether or not an account identifier is configured, it issues
\* DELETE /zones/{zoneID}/workers/filters/{routeID} and never fails with the
\* "organization ID required" error.
C7_DeleteRouteModeAgnostic ==
    Returned("DeleteWorkerRoute") =>
        /\ sent = <<makeRequest("DELETE", "/zones/" \o args.ZoneID \o "/workers/filters/" \o args.routeID, NoRoute)>>
        /\ ret.err.msg # errOrgRequired

C7_Witness ==
    /\ Returned("DeleteWorkerRoute") /\ OrganizationID # ""
    /\ Len(sent) = 1 /\ sent[1].method = "DELETE" /\ sent[1].uri = "/zones/z1/workers/filters/r1"

\* "script" followed by k markers.
RECURSIVE Marked(_)
Marked(k) == IF k = 0 THEN "script" ELSE Marked(k - 1) \o "_"

\* The body the call assembled, when it sent one.
SentParts == sent[1].body.parts

\* C8: for every binding map the collision-avoidance loop of
\* formatMultipartBody terminates, after at most one round per binding, with a
\* script body-part name that no binding has: "script" followed by the least
\* number of "_" (none when no binding is named "script") that makes it absent
\* from the binding names.  A body that is sent carries that name.
C8_ScriptBodyPartUnique ==
    Returned("UploadWorkerWithBindings") =>
        LET names == DOMAIN args.Bindings
            chosen == CollisionLoop(args.Bindings, "script")
        IN  /\ chosen \notin names
            /\ \E k \in 0..Cardinality(names) :
                  /\ chosen = Marked(k)
                  /\ \A j \in 0..(k - 1) : Marked(j) \in names
            /\ sent # <<>> =>
                  /\ SentParts[1].json.body_part = chosen
                  /\ SentParts[2].name = chosen

C8_Witness ==
    /\ Returned("UploadWorkerWithBindings") /\ sent # <<>>
    /\ DOMAIN args.Bindings = {"script", "script_"}
    /\ SentParts[1].json.body_part = "script__" /\ SentParts[2].name = "script__"

\* C9: UploadWorker sends, in both modes, a PUT whose body is exactly the raw
\* script bytes and whose Content-Type is exactly "application/javascript",
\* with no multipart wrapping.
C9_PlainUploadIsRaw ==
    Returned("UploadWorker") =>
        /\ \A i \in DOMAIN sent :
              /\ sent[i].method = "PUT"
              /\ sent[i].ContentType = "application/javascript"
              /\ ~sent[i].body.multipart
              /\ sent[i].body.raw = args.Script
              /\ sent[i].body.parts = <<>>
        /\ ReachesTransport => Len(sent) = 1

C9_Witness ==
    /\ Returned("UploadWorker") /\ args.ScriptName # "" /\ args.Script # ""
    /\ Len(sent) = 1 /\ sent[1].body.raw = args.Script /\ sent[1].ContentType = "application/javascript"

\* The indices of the parts the builder itself created under a given name.
BuilderPartsNamed(parts, name) == {i \in DOMAIN parts : parts[i].origin = "builder" /\ parts[i].name = name}

\* C10: for every binding map (the empty one included) for which
\* formatMultipartBody succeeds, the body holds exactly one part named
\* "metadata" and exactly one script part, named by the metadata's body_part,
\* in that order before any part a binding supplied, and the metadata's
\* bindings list has exactly one fragment per binding of the map.
C10_OneMetadataOneScript ==
    Returned("UploadWorkerWithBindings") =>
        LET f == formatMultipartBody(ScriptParams(args), args.order, args.boundary)
            parts == f.body.parts
            meta == parts[1].json
        IN  f.err = NoErr =>
              /\ f.body.multipart /\ Len(parts) >= 2
              /\ BuilderPartsNamed(parts, "metadata") = {1}
              /\ BuilderPartsNamed(parts, meta.body_part) = {2}
              /\ parts[2].text = args.Script
              /\ \A i \in DOMAIN parts : i > 2 <=> parts[i].origin = "binding"
              /\ Len(meta.bindings) = Cardinality(DOMAIN args.Bindings)
              /\ \A n \in DOMAIN args.Bindings :
                    Cardinality({i \in DOMAIN meta.bindings : meta.bindings[i].name = n}) = 1
              /\ (pc = "returned" /\ sent # <<>>) => sent[1].body = f.body

C10_Witness ==
    /\ Returned("UploadWorkerWithBindings") /\ sent # <<>>
    /\ Cardinality(DOMAIN args.Bindings) = 2
    /\ Len(SentParts) = 3 /\ SentParts[1].name = "metadata" /\ SentParts[3].origin = "binding"
    /\ Len(SentParts[1].json.bindings) = 2

\* The fragment WorkerInheritBinding{OldName: o}.serialize(n) is to produce.
InheritFragment(n, o) ==
    IF o = "" THEN [name |-> n, type |-> "inherit"]
    ELSE [name |-> n, type |-> "inherit", old_name |-> o]

\* The upload of the scenario: b1 = Inherit{} inserted first, b2 =
\* Inherit{OldName: "old_binding_name"} inserted second.
TwoInheritBindings ==
    /\ Returned("UploadWorkerWithBindings") /\ sent # <<>>
    /\ DOMAIN args.Bindings = {"b1", "b2"}
    /\ args.Bindings["b1"] = InheritBinding("")
    /\ args.Bindings["b2"] = InheritBinding("old_binding_name")

\* C11: UploadWorkerWithBindings lists the fragments in the order the bindings
\* were inserted into the map: for b1 = Inherit{} inserted first and b2 =
\* Inherit{OldName: "old_binding_name"} inserted second, every execution sends
\* the metadata bindings list [fragment of b1, fragment of b2].
C11_FragmentsInInsertionOrder ==
    TwoInheritBindings =>
        SentParts[1].json.bindings
            = <<InheritFragment("b1", ""), InheritFragment("b2", "old_binding_name")>>

\* Some binding of the call has a serialize that returns an error.
SomeSerializeFails == \E n \in DOMAIN args.Bindings : args.Bindings[n].serializeErr

\* The number of bindings of the call that come with a body-part writer.
WritersOfCall == Cardinality({n \in DOMAIN args.Bindings : args.Bindings[n].writer # "nil"})

\* C12: when a binding's serialize returns an error during
\* UploadWorkerWithBindings the upload returns that error and issues no
\* request, in either mode; an upload sends the fully assembled multipart body
\* or sends nothing.
C12_SerializeErrorAbortsUpload ==
    Returned("UploadWorkerWithBindings") =>
        /\ SomeSerializeFails => (sent = <<>> /\ ret.err = SerializeErr)
        /\ sent # <<>> =>
              /\ Len(sent) = 1 /\ sent[1].body.multipart
              /\ sent[1].ContentType = "multipart/form-data; boundary=" \o sent[1].body.boundary
              /\ Len(SentParts) = 2 + WritersOfCall
              /\ Len(SentParts[1].json.bindings) = Cardinality(DOMAIN args.Bindings)
              /\ SentParts[2].text = args.Script

C12_Witness ==
    /\ Returned("UploadWorkerWithBindings") /\ SomeSerializeFails
    /\ Cardinality(DOMAIN args.Bindings) = 2 /\ args.Bindings[args.order[1]].type = "inherit"
    /\ args.ScriptName = "" /\ sent = <<>> /\ ret.err = SerializeErr

DownloadTransportOK == Returned("DownloadWorker") /\ sent # <<>> /\ transport.err = NoErr

\* C13: when the transport call of DownloadWorker succeeds, in either mode,
\* the result's Script is the raw response bytes and its Success flag is true,
\* set without decoding the body; DownloadWorker never returns an "unmarshal
\* failed" error, whatever bytes the server returned.
C13_DownloadIsRaw ==
    Returned("DownloadWorker") =>
        /\ ret.err.msg # errUnmarshalError
        /\ DownloadTransportOK =>
              /\ ret.err = NoErr
              /\ ret.r.Script = transport.res.bytes
              /\ ret.r.Success = TRUE

C13_Witness ==
    /\ DownloadTransportOK /\ args.ScriptName # ""
    /\ ~transport.res.valid /\ ret.err = NoErr /\ ret.r.Script = "not json" /\ ret.r.Success

JSONOps ==
    {"DeleteWorker", "UploadWorker", "UploadWorkerWithBindings", "ListWorkerScripts",
     "CreateWorkerRoute", "UpdateWorkerRoute", "DeleteWorkerRoute", "ListWorkerRoutes"}

\* C14: in every JSON-returning operation a failure of the transport call is
\* returned wrapped with the "request failed" stage tag, an undecodable
\* response body is returned wrapped with the "unmarshal failed" stage tag,
\* and a decode error is only ever reported after a successful transport call.
C14_ErrorStageTags ==
    (pc = "returned" /\ op \in JSONOps) =>
        /\ (sent # <<>> /\ transport.err # NoErr) => ret.err = Wrap(transport.err, errMakeRequestError)
        /\ (sent # <<>> /\ transport.err = NoErr /\ ~transport.res.valid) =>
              ret.err = Wrap(JSONSyntaxErr, errUnmarshalError)
        /\ (sent # <<>> /\ transport.err = NoErr /\ transport.res.valid) => ret.err = NoErr
        /\ ret.err.msg = errUnmarshalError => (Len(sent) = 1 /\ transport.err = NoErr)
        /\ ret.err.msg = errMakeRequestError => (Len(sent) = 1 /\ transport.err # NoErr)

C14_Witness ==
    /\ Returned("CreateWorkerRoute") /\ Len(sent) = 1
    /\ transport.err = NoErr /\ ~transport.res.valid
    /\ ret.err.msg = errUnmarshalError /\ ret.err.cause = JSONSyntaxErr.msg

LocalErrors == {New(errOrgRequired), SerializeErr, WriterErr}

\* C17: every public operation issues at most one transport request per call
\* and never retries: after a transport or a decode error no second request
\* is made, and after a precondition or serialization error none is made.
C17_AtMostOneRequest ==
    pc = "returned" =>
        /\ Len(sent) <= 1
        /\ ret.err \in LocalErrors <=> sent = <<>>
        /\ ret.err.msg \in {errMakeRequestError, errUnmarshalError} => Len(sent) = 1

C17_Witness ==
    /\ Returned("UploadWorkerWithBindings") /\ args.ScriptName # ""
    /\ transport.err # NoErr /\ ret.err.msg = errMakeRequestError /\ Len(sent) = 1

\* What formatMultipartBody returned in the call.
Assembled == formatMultipartBodyOn(ScriptParams(args), args.order, args.boundary, args.fault)

\* The error of the step of the assembly that fails first, NoErr when none does.
FirstFailure ==
    IF SomeSerializeFails THEN SerializeErr
    ELSE IF args.fault # "none" THEN StepErr(args.fault)
    ELSE IF \E n \in DOMAIN args.Bindings : args.Bindings[n].writer = "fail" THEN WriterErr
    ELSE NoErr

FragmentNames(frags) == [i \in DOMAIN frags |-> frags[i].name]

\* The owners of the parts that follow the metadata and the script part.
BindingPartOwners(parts) == [i \in 1..(Len(parts) - 2) |-> parts[i + 2].owner]

HasWriter(n) == args.Bindings[n].writer # "nil"

\* C18: within one formatMultipartBody call the bindings are visited once and
\* the parts are consistent with the metadata: the body-part writers run after
\* the metadata and the script part, in the same relative order as their
\* bindings' fragments in the metadata bindings list, and a binding that
\* returned no writer contributes no part.
C18_PartsFollowFragmentOrder ==
    Returned("UploadWorkerWithBindings") =>
        LET f == formatMultipartBody(ScriptParams(args), args.order, args.boundary)
            parts == f.body.parts
            frags == parts[1].json.bindings
        IN  f.err = NoErr =>
              /\ FragmentNames(frags) = args.order
              /\ parts[1].origin = "builder" /\ parts[2].origin = "builder"
              /\ BindingPartOwners(parts) = SelectSeq(FragmentNames(frags), HasWriter)
              /\ \A n \in DOMAIN args.Bindings :
                    ~HasWriter(n) => \A i \in DOMAIN parts : parts[i].owner # n
              /\ sent # <<>> => SentParts = parts

C18_Witness ==
    /\ Returned("UploadWorkerWithBindings") /\ sent # <<>>
    /\ args.order = <<"b2", "b1">> /\ HasWriter("b1") /\ HasWriter("b2")
    /\ FragmentNames(SentParts[1].json.bindings) = <<"b2", "b1">>
    /\ BindingPartOwners(SentParts) = <<"b2", "b1">>

\* C19: for every binding name n and every OldName o,
\* WorkerInheritBinding{OldName: o}.serialize(n) returns a fragment with
\* name = n and type = "inherit", with old_name = o when o is non-empty and
\* without an old_name field when o is empty, and no body-part writer; the
\* fragment depends on no other binding of the map.
C19_InheritFragment ==
    Returned("UploadWorkerWithBindings") =>
        \A i \in DOMAIN args.order :
            LET n == args.order[i]
                b == args.Bindings[n]
                s == Serialize(b, n)
            IN  b.type = "inherit" =>
                  /\ s.err = NoErr /\ ~s.writer.present
                  /\ s.meta.name = n /\ s.meta.type = "inherit"
                  /\ DOMAIN s.meta = (IF b.OldName = "" THEN {"name", "type"} ELSE {"name", "type", "old_name"})
                  /\ b.OldName # "" => s.meta.old_name = b.OldName
                  /\ sent # <<>> =>
                        /\ SentParts[1].json.bindings[i] = s.meta
                        /\ \A j \in DOMAIN SentParts : SentParts[j].owner # n

C19_Witness ==
    /\ Returned("UploadWorkerWithBindings") /\ sent # <<>>
    /\ args.order = <<"b1", "b2">>
    /\ args.Bindings["b1"] = InheritBinding("") /\ args.Bindings["b2"] = InheritBinding("old_binding_name")
    /\ DOMAIN SentParts[1].json.bindings[1] = {"name", "type"}
    /\ SentParts[1].json.bindings[2].old_name = "old_binding_name"
    /\ Len(SentParts) = 2

====
